---- MODULE Spec2Model ----
(***************************************************************************)
(* LLStatBar (indra/llui/llstatbar.cpp): the statistics bar widget and its *)
(* numeric helpers calc_tick_value, calc_auto_scale_range and              *)
(* calc_num_rapid_changes.                                                 *)
(*                                                                         *)
(* Numbers.  An F32 is modelled as a fixed-point number: the integer x     *)
(* stands for x / Unit.  Unit is chosen so that every quotient the code    *)
(* forms on the inputs drawn here (range / divisor, power_of_10 * 1.5,     *)
(* power_of_10 * 0.25) is exact, so the arithmetic below is the code's     *)
(* arithmetic without F32 rounding.  A time is an integer number of        *)
(* twentieths of a second.                                                 *)
(***************************************************************************)
EXTENDS Integers, Sequences, FiniteSets, TLC

VARIABLES
    pc,       \* position of the driver: "call" / "done" for a helper call, "bar" for a widget
    arg,      \* arguments of the helper call
    ret,      \* what the helper call returned (written back)
    bar,      \* the fields of the LLStatBar
    frame     \* what the last draw() rendered

vars == <<pc, arg, ret, bar, frame>>

-----------------------------------------------------------------------------
(* Bounds of the model *)

\* inputs are the multiples of one half with magnitude at most MaxVal / 2
MaxVal == 24

Unit == 24 * 100
Half == Unit \div 2

F32(k) == k * Half

Values == { F32(k) : k \in -MaxVal..MaxVal }

S32_MAX == (2^30 - 1) + 2^30
S32_MIN == -S32_MAX - 1

-----------------------------------------------------------------------------
(* llmath.h helpers as the code uses them *)

llabs(x) == IF x < 0 THEN -x ELSE x

llmin2(a, b) == IF a < b THEN a ELSE b
llmax2(a, b) == IF a > b THEN a ELSE b
llmin(a, b, c) == llmin2(llmin2(a, b), c)
llmax(a, b, c) == llmax2(llmax2(a, b), c)

\* is_approx_equal(F32, F32): equality up to the last bit of the mantissa; on the
\* fixed-point grid two numbers are approximately equal when they are the same
is_approx_equal(x, y) == x = y

RECURSIVE Pow10(_)
Pow10(n) == IF n <= 0 THEN 1 ELSE 10 * Pow10(n - 1)

\* 10^e as a fixed-point number, e >= -2
Pow10Units(e) == IF e >= 0 THEN Unit * Pow10(e) ELSE Unit \div Pow10(-e)

\* x <= 10^d for the fixed-point x > 0
LePow10(x, d) == IF d >= 0 THEN x <= Unit * Pow10(d) ELSE x * Pow10(-d) <= Unit

\* llceil(logf(x) * OO_LN10) for x > 0: the least d with x <= 10^d
RECURSIVE CeilLog10From(_, _)
CeilLog10From(x, d) ==
    IF LePow10(x, d)
    THEN IF LePow10(x, d - 1) THEN CeilLog10From(x, d - 1) ELSE d
    ELSE CeilLog10From(x, d + 1)

CeilLog10(x) == CeilLog10From(x, 0)

-----------------------------------------------------------------------------
(* calc_tick_value *)

DIVISORS == <<6, 8, 10, 4, 5>>

\* digit counts the undefined scan start is followed down to
MaxDigits == 3

\* F32 range = max - min
TickRangeSwapped(min, max) == min - max
TickRange(min, max) == max - min

\* F32 possible_tick_value = range / divisor
possible_tick_value(range, divisor) == range \div divisor

\* F32 test_tick_value = min + (possible_tick_value * pow(10.0, digit_count)),
\* kept as the fraction num / den of fixed-point numbers
test_tick_value(min, tick, digit_count) ==
    IF digit_count >= 0
    THEN [num |-> min + tick * Pow10(digit_count), den |-> 1]
    ELSE [num |-> min * Pow10(-digit_count) + tick, den |-> Pow10(-digit_count)]

\* is_approx_equal((F32)(S32)test_tick_value, test_tick_value): the value is whole
IsWholeTick(t) == t.num % (Unit * t.den) = 0

\* the inner loop: the first digit_count < 6, from `digit_count` on, at which the
\* test value is whole; S32_MAX when there is none (the best count is left alone)
RECURSIVE ScanDigits(_, _, _)
ScanDigits(min, tick, digit_count) ==
    IF digit_count >= 6 THEN S32_MAX
    ELSE IF IsWholeTick(test_tick_value(min, tick, digit_count)) THEN digit_count
    ELSE ScanDigits(min, tick, digit_count + 1)

\* logf of a number <= 0 is -inf or NaN and its conversion to S32 is undefined:
\* the scan may start anywhere, and stop at any digit count or at none
UndefinedDigitCounts == {-S32_MAX} \cup (-MaxDigits..5) \cup {S32_MAX}

\* the digit counts the inner loop can end with for one divisor
DigitCounts(min, tick) ==
    IF min + tick > 0
    THEN {ScanDigits(min, tick, -(CeilLog10(min + tick) - 1))}
    ELSE UndefinedDigitCounts

\* if (digit_count < best_decimal_digit_count) { best... = digit_count; best_divisor = divisor; }
BetterDigits(best, digit_count, divisor) ==
    IF digit_count < best.count
    THEN [count |-> digit_count, divisor |-> divisor]
    ELSE best

\* (best_decimal_digit_count, best_divisor) after the first n divisors
RECURSIVE BestAfter(_, _, _)
BestAfter(min, range, n) ==
    IF n = 0
    THEN {[count |-> S32_MAX, divisor |-> 10]}
    ELSE { BetterDigits(best, digit_count, DIVISORS[n]) :
             best \in BestAfter(min, range, n - 1),
             digit_count \in DigitCounts(min, possible_tick_value(range, DIVISORS[n])) }

\* the values calc_tick_value(min, max) can return (one, unless the scan start is undefined)
calc_tick_value(min, max) ==
    LET range == TickRange(min, max)
    IN  IF is_approx_equal(range, 0)
        THEN {0}
        ELSE { range \div best.divisor : best \in BestAfter(min, range, Len(DIVISORS)) }

-----------------------------------------------------------------------------
(* calc_auto_scale_range *)

\* RANGES in halves, TICKS in quarters
RANGES == <<0, 2, 3, 4, 6, 10, 20>>
TICKS == <<0, 1, 2, 4, 4, 4, 8>>

\* llceil(logf(llabs(x)) * OO_LN10), S32_MIN + 1 for x approximately 0
num_digits_of(x) ==
    IF is_approx_equal(llabs(x), 0) THEN S32_MIN + 1 ELSE CeilLog10(llabs(x))

\* pow(10.0, num_digits - 1); 10^S32_MIN underflows to 0
power_of_10_of(num_digits) ==
    IF num_digits - 1 = S32_MIN THEN 0 ELSE Pow10Units(num_digits - 1)

\* cur_max >= max, cur_min <= min: the candidate bound covers the observed one
CoversMaxReversed(cur_max, max) == cur_max <= max
CoversMaxAlways(cur_max, max) == TRUE
CoversMax(cur_max, max) == cur_max >= max
CoversMinStrict(cur_min, min) == cur_min < min
CoversMin(cur_min, min) == cur_min <= min

\* one iteration of the first loop on its state st: out_min and out_max follow
\* the candidates that cover an observed bound on the far side of zero
ScaleUpIteration(min, max, starting_min, starting_max, st) ==
    LET cur_max == (starting_max * RANGES[st.range_idx]) \div 2
        cur_min == (starting_min * RANGES[st.range_idx]) \div 2
        a == min > 0 /\ CoversMin(cur_min, min)
        b == max < 0 /\ CoversMax(cur_max, max)
    IN  [range_idx    |-> st.range_idx + 1,
         out_min      |-> IF a THEN cur_min ELSE st.out_min,
         cur_tick_min |-> IF a THEN TICKS[st.range_idx] ELSE st.cur_tick_min,
         out_max      |-> IF b THEN cur_max ELSE st.out_max,
         cur_tick_max |-> IF b THEN TICKS[st.range_idx] ELSE st.cur_tick_max]

\* the first loop, range_idx = 1 .. 7 upward (each iteration is computed once)
RECURSIVE ScaleUp(_, _, _, _, _)
ScaleUp(min, max, starting_min, starting_max, st) ==
    IF st.range_idx > Len(RANGES) THEN st
    ELSE CHOOSE r \in { ScaleUp(min, max, starting_min, starting_max, t) :
                          t \in {ScaleUpIteration(min, max, starting_min, starting_max, st)} } :
            TRUE

\* one iteration of the second loop on its state st: out_min and out_max follow
\* the candidates that cover an observed bound on their own side of zero
ScaleDownIteration(min, max, starting_min, starting_max, st) ==
    LET cur_max == (starting_max * RANGES[st.range_idx]) \div 2
        cur_min == (starting_min * RANGES[st.range_idx]) \div 2
        a == min < 0 /\ CoversMin(cur_min, min)
        b == max > 0 /\ CoversMax(cur_max, max)
    IN  [range_idx    |-> st.range_idx - 1,
         out_min      |-> IF a THEN cur_min ELSE st.out_min,
         cur_tick_min |-> IF a THEN TICKS[st.range_idx] ELSE st.cur_tick_min,
         out_max      |-> IF b THEN cur_max ELSE st.out_max,
         cur_tick_max |-> IF b THEN TICKS[st.range_idx] ELSE st.cur_tick_max]

\* the second loop, range_idx = 7 .. 1 downward (each iteration is computed once)
RECURSIVE ScaleDown(_, _, _, _, _)
ScaleDown(min, max, starting_min, starting_max, st) ==
    IF st.range_idx < 1 THEN st
    ELSE CHOOSE r \in { ScaleDown(min, max, starting_min, starting_max, t) :
                          t \in {ScaleDownIteration(min, max, starting_min, starting_max, st)} } :
            TRUE

\* min = llmin(0.f, min, max); max = llmax(0.f, min, max);
ClampMinNoZero(min, max) == llmin2(min, max)
ClampMin(min, max) == llmin(0, min, max)
ClampMax(min, max) == llmax(0, min, max)

\* the two loops of calc_auto_scale_range on the clamped min and max, from the
\* power of ten of the larger bound: the three values written back
AutoScaleLoops(min, max, power_of_10) ==
    LET starting_max == power_of_10 * (IF max < 0 THEN -1 ELSE 1)
        starting_min == power_of_10 * (IF min < 0 THEN -1 ELSE 1)
        st0 == [range_idx |-> 1, out_min |-> min, out_max |-> max,
                cur_tick_min |-> 0, cur_tick_max |-> 0]
    IN  CHOOSE out \in
           { [min  |-> st2.out_min,
              max  |-> st2.out_max,
              tick |-> (power_of_10 * llmax2(st2.cur_tick_min, st2.cur_tick_max)) \div 4] :
               st2 \in { ScaleDown(min, max, starting_min, starting_max,
                                    [st1 EXCEPT !.range_idx = Len(RANGES)]) :
                            st1 \in {ScaleUp(min, max, starting_min, starting_max, st0)} } } :
           TRUE

\* calc_auto_scale_range(min, max, tick): the three values written back (the
\* clamped bounds and the power of ten are computed once)
calc_auto_scale_range(min_in, max_in) ==
    CHOOSE out \in
       { AutoScaleLoops(min, max, power_of_10) :
           min \in {ClampMin(min_in, max_in)},
           max \in {ClampMax(ClampMin(min_in, max_in), max_in)},
           power_of_10 \in {power_of_10_of(llmax2(num_digits_of(ClampMax(ClampMin(min_in, max_in), max_in)),
                                                   num_digits_of(ClampMin(min_in, max_in))))} } :
       TRUE

-----------------------------------------------------------------------------
(* The helpers called on their own: one call of calc_tick_value or of       *)
(* calc_auto_scale_range on any pair of inputs.                             *)

NoBar == [kind |-> "none"]
NoFrame == [kind |-> "none"]
NoCall == [fn |-> "none"]

InitCalc ==
    /\ pc = "call"
    /\ arg \in [min : Values, max : Values]
    /\ ret = NoCall
    /\ bar = NoBar
    /\ frame = NoFrame

CallTickValue ==
    /\ pc = "call"
    /\ \E tick \in calc_tick_value(arg.min, arg.max) :
          ret' = [fn |-> "calc_tick_value", tick |-> tick]
    /\ pc' = "done"
    /\ UNCHANGED <<arg, bar, frame>>

CallAutoScaleRange ==
    /\ pc = "call"
    /\ LET out == calc_auto_scale_range(arg.min, arg.max)
       IN  ret' = [fn |-> "calc_auto_scale_range",
                   min |-> out.min, max |-> out.max, tick |-> out.tick]
    /\ pc' = "done"
    /\ UNCHANGED <<arg, bar, frame>>

NextCalc == CallTickValue \/ CallAutoScaleRange

SpecCalc == InitCalc /\ [][NextCalc]_vars

-----------------------------------------------------------------------------
(* Claims about the helpers, checked under SpecCalc *)

ScaleDone == pc = "done" /\ ret.fn = "calc_auto_scale_range"
TickDone == pc = "done" /\ ret.fn = "calc_tick_value"

\* C1: for every input pair (min, max) the bounds calc_auto_scale_range writes back
\* do not clip the inputs: out_min <= min and out_max >= max.
C1_NeverClips == ScaleDone => (ret.min <= arg.min /\ ret.max >= arg.max)

\* a call that moved both bounds outward, on an input pair given in the wrong order
C1_Witness ==
    ScaleDone /\ ret.min < arg.min /\ ret.max > arg.max /\ arg.min > arg.max

\* C2: for every input pair, both positive and both negative included, the bounds
\* written back bracket zero: out_min <= 0 <= out_max.
C2_BracketsZero == ScaleDone => (ret.min <= 0 /\ 0 <= ret.max)

\* a call on two strictly positive inputs
C2_Witness == ScaleDone /\ arg.min > 0 /\ arg.max > arg.min /\ ret.min = 0

\* The nice multiples {0, 1, 1.5, 2, 3, 5, 10} x P
NiceMultiples(P) == { (P * 0) \div 2, (P * 2) \div 2, (P * 3) \div 2, (P * 4) \div 2,
                      (P * 6) \div 2, (P * 10) \div 2, (P * 20) \div 2 }

\* P = 10^(digits - 1), digits taken from the bound of larger magnitude
NicePower(lo, hi) ==
    LET m == IF llabs(lo) > llabs(hi) THEN llabs(lo) ELSE llabs(hi)
    IN  IF m = 0 THEN 0 ELSE Pow10Units(CeilLog10(m) - 1)

\* the least nice multiple of P that is >= x
SnapOutward(P, x) ==
    CHOOSE v \in NiceMultiples(P) :
        v >= x /\ \A w \in NiceMultiples(P) : w >= x => v <= w

\* the claim's snapping, of the bounds lo <= 0 <= hi
SnappedTo(lo, hi, out) ==
    LET P == NicePower(lo, hi)
    IN  /\ hi > 0 => out.max = SnapOutward(P, hi)
        /\ lo < 0 => out.min = -SnapOutward(P, -lo)
        /\ hi = 0 => out.max = 0
        /\ lo = 0 => out.min = 0

\* C3: each bound is snapped outward to the nearest nice multiple of P, the power
\* of ten of the larger-magnitude bound: a positive max becomes the least of
\* {0, 1, 1.5, 2, 3, 5, 10} x P that is >= max, a negative min the one of least
\* magnitude of {..} x (-P) that is <= min, each side on its own, and a bound that
\* is 0 stays 0.  On a pair min <= max these are the bounds passed in; in general
\* they are the bounds after the function's clamp to zero.
C3_SnapsOutward ==
    ScaleDone =>
        LET lo == llmin(0, arg.min, arg.max)
            hi == llmax(0, lo, arg.max)
        IN  /\ SnappedTo(lo, hi, ret)
            /\ arg.min <= arg.max =>
                  /\ arg.max > 0 => ret.max = SnapOutward(NicePower(arg.min, arg.max), arg.max)
                  /\ arg.min < 0 => ret.min = -SnapOutward(NicePower(arg.min, arg.max), -arg.min)
                  /\ arg.max = 0 => ret.max = 0
                  /\ arg.min = 0 => ret.min = 0

\* a call where the smaller side is snapped with the power of ten of the larger one
\* and neither bound was nice already
C3_Witness ==
    /\ ScaleDone
    /\ arg.min < 0 /\ arg.max > 10 * Unit
    /\ ret.min = -10 * Unit /\ ret.min < arg.min
    /\ ret.max = 15 * Unit /\ ret.max > arg.max

\* C4: for max >= min the tick is non-negative, and 0 exactly when max = min.
C4_TickSign ==
    (TickDone /\ arg.max >= arg.min) =>
        (ret.tick >= 0 /\ (ret.tick = 0 <=> arg.max = arg.min))

\* a positive tick of a range that starts below zero
C4_Witness == TickDone /\ arg.min < 0 /\ arg.max > arg.min /\ ret.tick > 0

\* the digit count at which the quotient alone becomes whole (S32_MAX: at none)
QuotientDigits(quotient) == ScanDigits(0, quotient, -(CeilLog10(quotient) - 1))

\* the divisor the claim prefers: the fewest digits, the earliest in DIVISORS among equals
PreferredDivisor(range) ==
    LET digits(i) == QuotientDigits(range \div DIVISORS[i])
        i == CHOOSE k \in 1..Len(DIVISORS) :
                /\ \A j \in 1..Len(DIVISORS) : digits(k) <= digits(j)
                /\ \A j \in 1..(k - 1) : digits(j) > digits(k)
    IN  DIVISORS[i]

\* C5: for every range max > min, whatever min is, the tick is (max - min) / d for
\* the divisor d of 6, 8, 10, 4, 5 whose quotient needs the fewest decimal digits to
\* be whole, the earliest in that order among equals.  (Stated for min >= 0, where
\* the argument of logf is positive.)
C5_TickFromQuotient ==
    (TickDone /\ arg.min >= 0 /\ arg.max > arg.min) =>
        ret.tick = (arg.max - arg.min) \div PreferredDivisor(arg.max - arg.min)

-----------------------------------------------------------------------------
(* calc_num_rapid_changes.  A time is a number of twentieths of a second.   *)
(* The periodic recording is the sequence recs: recs[i] is                  *)
(* getPrevRecording(i), with the value the stat had in that frame            *)
(* (getLastValue, getSum) and the frame's duration; getNumRecordedPeriods() *)
(* is Len(recs) + 1, the recording in progress included.                    *)

MEAN_VALUE_UPDATE_TIME == 5
RAPID_CHANGE_THRESHOLD == 4
RAPID_CHANGE_THRESHOLD_local == 6
MAX_RAPID_CHANGES_PER_SEC == 10
RAPID_CHANGE_WINDOW == 20

\* frames of history in a call of calc_num_rapid_changes
MaxPeriods == 4

Durations == {2, 7, 12}
StatValues == {0, 1}
Recordings == [value : StatValues, duration : Durations]

RECURSIVE SeqsUpTo(_, _)
SeqsUpTo(S, n) ==
    IF n = 0 THEN {<<>>}
    ELSE LET shorter == SeqsUpTo(S, n - 1)
         IN  shorter \cup { Append(q, x) : q \in { r \in shorter : Len(r) = n - 1 }, x \in S }

getNumRecordedPeriods(recs) == Len(recs) + 1

\* if (time_since_value_changed < RAPID_CHANGE_THRESHOLD) num_rapid_changes++;
\* time_since_value_changed = 0;
\* (time_since_value_changed is set nowhere else: it is 0 whenever it is read)
OnValueChanged(st, threshold, duration) ==
    [st EXCEPT !.num_rapid_changes =
                   IF st.time_since_value_changed < threshold THEN @ + 1 ELSE @,
               !.time_since_value_changed = 0]

\* the loop body from frame i on, until i reaches getNumRecordedPeriods() or the
\* elapsed time passes time_period
RECURSIVE RapidLoop(_, _, _, _, _)
RapidLoop(recs, threshold, time_period, i, st) ==
    IF ~(i < getNumRecordedPeriods(recs)) THEN st
    ELSE LET cur_value == recs[i].value
             st1 == IF st.last_value # cur_value
                    THEN OnValueChanged(st, threshold, recs[i].duration)
                    ELSE st
             st2 == [st1 EXCEPT !.last_value = cur_value,
                                !.elapsed_time = @ + recs[i].duration]
         IN  IF st2.elapsed_time > time_period
             THEN st2
             ELSE RapidLoop(recs, threshold, time_period, i + 1, st2)

\* the state before the loop; with no previous recording the loop does not run
\* and the value read for last_value is not used
RapidStart(recs) ==
    [elapsed_time |-> 0, time_since_value_changed |-> 0, num_rapid_changes |-> 0,
     last_value |-> IF Len(recs) >= 1 THEN recs[1].value ELSE 0]

\* template<typename T> calc_num_rapid_changes (event and sample stats): its own
\* RAPID_CHANGE_THRESHOLD of 0.3 s, frames from i = 2
calc_num_rapid_changes_T(recs, time_period) ==
    RapidLoop(recs, RAPID_CHANGE_THRESHOLD_local, time_period, 2,
              RapidStart(recs)).num_rapid_changes

\* calc_num_rapid_changes for a count stat: the file's RAPID_CHANGE_THRESHOLD of
\* 0.2 s, frames from i = 1
calc_num_rapid_changes(recs, time_period) ==
    RapidLoop(recs, RAPID_CHANGE_THRESHOLD, time_period, 1,
              RapidStart(recs)).num_rapid_changes

InitRapid ==
    /\ pc = "call"
    /\ arg \in [recs : SeqsUpTo(Recordings, MaxPeriods)]
    /\ ret = NoCall
    /\ bar = NoBar
    /\ frame = NoFrame

CallNumRapidChangesT ==
    /\ pc = "call"
    /\ ret' = [fn |-> "calc_num_rapid_changes<T>", first |-> 2,
               threshold |-> RAPID_CHANGE_THRESHOLD_local,
               num |-> calc_num_rapid_changes_T(arg.recs, RAPID_CHANGE_WINDOW)]
    /\ pc' = "done"
    /\ UNCHANGED <<arg, bar, frame>>

CallNumRapidChanges ==
    /\ pc = "call"
    /\ ret' = [fn |-> "calc_num_rapid_changes", first |-> 1,
               threshold |-> RAPID_CHANGE_THRESHOLD,
               num |-> calc_num_rapid_changes(arg.recs, RAPID_CHANGE_WINDOW)]
    /\ pc' = "done"
    /\ UNCHANGED <<arg, bar, frame>>

NextRapid == CallNumRapidChangesT \/ CallNumRapidChanges

SpecRapid == InitRapid /\ [][NextRapid]_vars

RECURSIVE SumDurations(_, _, _)
SumDurations(recs, from, to) ==
    IF from > to THEN 0 ELSE recs[from].duration + SumDurations(recs, from + 1, to)

\* the frames within the trailing window: those that begin no more than
\* time_period after the first frame looked at
FramesInWindow(recs, first, time_period) ==
    { i \in first..Len(recs) : SumDurations(recs, first, i - 1) <= time_period }

\* the frames in the window at which the value differs from the frame before
ValueChanges(recs, first, time_period) ==
    { i \in FramesInWindow(recs, first, time_period) :
        i >= 2 /\ recs[i].value # recs[i - 1].value }

\* the value changes that come less than `threshold` after the previous value change
RapidValueChanges(recs, first, threshold, time_period) ==
    LET changes == ValueChanges(recs, first, time_period)
    IN  { i \in changes :
            \E p \in changes :
                /\ p < i
                /\ \A c \in changes : c < i => c <= p
                /\ SumDurations(recs, p, i - 1) < threshold }

RapidDone == pc = "done" /\ ret.fn \in {"calc_num_rapid_changes<T>", "calc_num_rapid_changes"}

\* C10: a value change between consecutive frames counts as a rapid change only
\* when less than RAPID_CHANGE_THRESHOLD has passed since the previous value
\* change; changes at least the threshold apart are not counted, and only the
\* frames within the trailing time_period are looked at.  (The first change in the
\* window has no previous one: it may or may not be counted.)
C10_CountsOnlyRapidChanges ==
    RapidDone =>
        LET rapid == Cardinality(RapidValueChanges(arg.recs, ret.first, ret.threshold,
                                                   RAPID_CHANGE_WINDOW))
        IN  rapid <= ret.num /\ ret.num <= rapid + 1

-----------------------------------------------------------------------------
(* LLStatBar *)

\* a display value that is not a number
NaN == S32_MIN
llisnan(x) == x = NaN

\* LLSmoothInterpolation::lerp(a, b, 0.05f): a moves toward b by the blend
\* fraction 1 / BlendDivisor of the gap, the step cut to the fixed-point grid
BlendDivisor == 20

TruncDiv(x, d) == IF x >= 0 THEN x \div d ELSE -((-x) \div d)

lerp(a, b) == a + TruncDiv(b - a, BlendDivisor)

\* mCurMaxBar = lerp(mCurMaxBar, mMaxBar, 0.05f); mCurMinBar = lerp(mCurMinBar, mMinBar, 0.05f);
SmoothedMaxTowardMin(b) == lerp(b.mCurMaxBar, b.mMinBar)
SmoothedMax(b) == lerp(b.mCurMaxBar, b.mMaxBar)
SmoothedMin(b) == lerp(b.mCurMinBar, b.mMinBar)

\* the widget's rectangle, getRect()
RectWidth == 200
RectHeight == 100

\* bar_rect as draw() lays it out
bar_rect(orientation) ==
    LET top == llmax2(5, RectHeight - 15)
    IN  IF orientation = "HORIZONTAL"
        THEN [mTop |-> top, mLeft |-> 0, mRight |-> RectWidth - 40,
              mBottom |-> llmin2(top - 5, 0)]
        ELSE [mTop |-> top, mLeft |-> 0, mRight |-> RectWidth,
              mBottom |-> llmin2(top - 5, 20)]

getHeight(r) == r.mTop - r.mBottom
getWidth(r) == r.mRight - r.mLeft

\* value_scale, the fraction num / den; 0 when mCurMaxBar == mCurMinBar
value_scale_of(b) ==
    IF b.mCurMaxBar = b.mCurMinBar
    THEN [num |-> 0, den |-> 1]
    ELSE [num |-> IF b.mOrientation = "HORIZONTAL"
                  THEN getHeight(bar_rect(b.mOrientation))
                  ELSE getWidth(bar_rect(b.mOrientation)),
          den |-> b.mCurMaxBar - b.mCurMinBar]

ScalePositive(scale) ==
    (scale.num > 0 /\ scale.den > 0) \/ (scale.num < 0 /\ scale.den < 0)

\* llfloor(x * value_scale), x a fixed-point number, the result in pixels
ScaledFloor(x, scale) ==
    IF scale.den > 0 THEN (x * scale.num) \div scale.den
    ELSE ((-x) * scale.num) \div (-scale.den)

\* llceil(a / b) for b > 0
CeilDiv(a, b) == -((-a) \div b)

HasStat(b) == b.stat # {}

\* the first part of drawTicks: the target range and the tick value follow the
\* observed min and max on the sides that scale automatically.  The set of the
\* bars it can leave (calc_tick_value may have several outcomes).
AutoScaled(b, min, max) ==
    IF (b.mAutoScaleMax /\ max >= b.mCurMaxBar) \/ (b.mAutoScaleMin /\ min <= b.mCurMinBar)
    THEN LET range_min == IF b.mAutoScaleMin THEN llmin2(b.mMinBar, min) ELSE b.mMinBar
             range_max == IF b.mAutoScaleMax THEN llmax2(b.mMaxBar, max) ELSE b.mMaxBar
             out == calc_auto_scale_range(range_min, range_max)
             b1 == [b EXCEPT !.mMinBar = IF b.mAutoScaleMin THEN out.min ELSE @,
                             !.mMaxBar = IF b.mAutoScaleMax THEN out.max ELSE @]
         IN  IF b.mAutoScaleMin /\ b.mAutoScaleMax
             THEN {[b1 EXCEPT !.mTickValue = out.tick]}
             ELSE { [b1 EXCEPT !.mTickValue = tick] :
                        tick \in calc_tick_value(b1.mMinBar, b1.mMaxBar) }
    ELSE {b}

MIN_TICK_SPACING(orientation) == IF orientation = "HORIZONTAL" THEN 20 ELSE 30
MIN_LABEL_SPACING(orientation) == IF orientation = "HORIZONTAL" THEN 30 ELSE 60

\* the decimal digits a value is printed with: none when the value is whole
decimal_digits_of(b, value) ==
    IF is_approx_equal(TruncDiv(value, Unit) * Unit, value) THEN 0 ELSE b.mDecimalDigits

\* iterations of the tick loop followed before it is given up
MaxTickLoop == 40

\* the locals of the tick loop before its first iteration
TickLocals(tick_value) ==
    [tick_value |-> tick_value, last_tick |-> 0, last_label |-> 0,
     drawn |-> <<>>, finished |-> FALSE, n |-> 0]

\* one iteration of the tick loop on its locals s: a tick closer than the
\* minimum spacing to the last one is skipped, any other is drawn (with its
\* label when the last label is far enough), and the loop breaks after the
\* first tick past mCurMaxBar
TickIteration(b, scale, s) ==
    LET begin == ScaledFloor(s.tick_value - b.mCurMinBar, scale)
        labelled == begin - s.last_label > MIN_LABEL_SPACING(b.mOrientation)
        tick == [value |-> s.tick_value, begin |-> begin, labelled |-> labelled,
                 decimal_digits |-> decimal_digits_of(b, s.tick_value),
                 step |-> b.mTickValue]
    IN  IF begin - s.last_tick < MIN_TICK_SPACING(b.mOrientation)
        THEN [s EXCEPT !.tick_value = @ + b.mTickValue, !.n = @ + 1]
        ELSE [tick_value |-> s.tick_value + b.mTickValue,
              last_tick |-> begin,
              last_label |-> IF labelled THEN begin ELSE s.last_label,
              drawn |-> Append(s.drawn, tick),
              finished |-> s.tick_value > b.mCurMaxBar,
              n |-> s.n + 1]

\* the tick loop from the locals s on: the ticks drawn, in order, and whether
\* the loop reached its break (each iteration's locals are computed once)
RECURSIVE TickLoop(_, _, _)
TickLoop(b, scale, s) ==
    IF s.finished \/ s.n >= MaxTickLoop
    THEN s
    ELSE CHOOSE r \in { TickLoop(b, scale, t) : t \in {TickIteration(b, scale, s)} } : TRUE

\* if (mTickValue > 0.f && value_scale > 0.f)
TicksGuardNonZero(b, scale) == b.mTickValue # 0 /\ ScalePositive(scale)
TicksGuard(b, scale) == b.mTickValue > 0 /\ ScalePositive(scale)

\* the second part of drawTicks: the ticks drawn
TicksDrawn(b, scale) ==
    IF TicksGuard(b, scale)
    THEN LET start == IF b.mCurMinBar < 0
                      THEN CeilDiv(-b.mCurMinBar, b.mTickValue) * (-b.mTickValue)
                      ELSE 0
         IN  TickLoop(b, scale, TickLocals(start))
    ELSE [drawn |-> <<>>, finished |-> TRUE]

\* drawLabelAndValue: the value string rendered
NotANumberText(b, value) ==
    [text |-> "number", value |-> value, decimal_digits |-> b.mDecimalDigits]
value_str(b, value) ==
    IF ~llisnan(value)
    THEN [text |-> "number", value |-> value,
          decimal_digits |-> decimal_digits_of(b, value)]
    ELSE [text |-> "n/a"]

\* if (!llisnan(display_value) && frame_recording.getNumRecordedPeriods() != 0)
BarsGuard(display_value, num_periods) == ~llisnan(display_value) /\ num_periods # 0

\* the bars draw() renders besides the ticks and the background
BarsDrawn(b, display_value, num_periods) ==
    IF BarsGuard(display_value, num_periods)
    THEN {"minmax", "mean"} \cup
         (IF b.mDisplayHistory /\ HasStat(b) THEN {"history"} ELSE {"current"})
    ELSE {}

\* twentieths in a second
TimeUnit == 4 * 5

\* the timer is followed up to one step past the update time
TimerCap == MEAN_VALUE_UPDATE_TIME + 1

\* which of mCountFloatp, mEventFloatp, mSampleFloatp draw() reads
StatKind(b) ==
    IF "count" \in b.stat THEN "count"
    ELSE IF "event" \in b.stat THEN "event"
    ELSE IF "sample" \in b.stat THEN "sample"
    ELSE "none"

\* if (num_rapid_changes / RAPID_CHANGE_WINDOW > MAX_RAPID_CHANGES_PER_SEC)
TooRapid(num_rapid_changes) ==
    num_rapid_changes * TimeUnit > MAX_RAPID_CHANGES_PER_SEC * RAPID_CHANGE_WINDOW

\* if (mLastDisplayValueTimer.getElapsedTimeF32() > MEAN_VALUE_UPDATE_TIME)
UpdateDueAlways(elapsed) == TRUE
UpdateDue(elapsed) == elapsed > MEAN_VALUE_UPDATE_TIME

\* the part of draw() inside if (mDisplayBar && mStat.valid): drawTicks (the
\* range follows the observed values, then the ticks are drawn on the value
\* scale computed before it), the background and the bars
DrawTicksAndBars(b3, f0, min, max, display_value, num_periods) ==
    { [bar |-> t.bar,
       frame |-> [f0 EXCEPT !.ticks = t.ticks.drawn,
                            !.ticks_finished = t.ticks.finished,
                            !.bars = BarsDrawn(t.bar, display_value, num_periods),
                            !.background = TRUE]] :
        t \in { [bar |-> b4, ticks |-> TicksDrawn(b4, scale)] :
                   b4 \in AutoScaled(b3, min, max),
                   scale \in {value_scale_of(b3)} } }

\* draw(), on what the frame recording gives this frame (in): the bars and the
\* frames rendered it can end with
DrawBar(b, in) ==
    LET kind == StatKind(b)
        current == IF kind = "none" THEN 0 ELSE in.current
        min == IF kind = "none" THEN 0 ELSE in.min
        max == IF kind = "none" THEN 0 ELSE in.max
        mean == IF kind = "none" THEN 0 ELSE in.mean
        direct == kind = "sample" /\ ~TooRapid(in.num_rapid_changes)
        display_value == IF kind = "none" THEN 0
                         ELSE IF direct THEN current
                         ELSE mean
        b1 == IF direct THEN [b EXCEPT !.mLastDisplayValue = current] ELSE b
        b2 == [b1 EXCEPT !.mCurMaxBar = SmoothedMax(b1), !.mCurMinBar = SmoothedMin(b1)]
        elapsed == llmin2(b.timer + in.dt, TimerCap)
        due == UpdateDue(elapsed)
        shown == IF due THEN display_value ELSE b2.mLastDisplayValue
        b3 == IF due
              THEN [b2 EXCEPT !.timer = 0, !.mLastDisplayValue = display_value]
              ELSE [b2 EXCEPT !.timer = elapsed]
        f0 == [kind |-> "frame", shown |-> shown, value_str |-> value_str(b3, shown),
               display_value |-> display_value, updated |-> due,
               elapsed |-> elapsed, current |-> current, mean |-> mean,
               num_rapid_changes |-> in.num_rapid_changes,
               num_periods |-> in.num_periods,
               ticks |-> <<>>, ticks_finished |-> TRUE, bars |-> {},
               background |-> FALSE,
               from |-> [mCurMinBar |-> b.mCurMinBar, mCurMaxBar |-> b.mCurMaxBar,
                         mMinBar |-> b.mMinBar, mMaxBar |-> b.mMaxBar]]
    IN  IF b3.mDisplayBar /\ HasStat(b3)
        THEN UNION { DrawTicksAndBars(bar3, frame0, min, max, display_value,
                                      in.num_periods) :
                       bar3 \in {b3}, frame0 \in {f0} }
        ELSE { [bar |-> b3, frame |-> f0] }

\* setRange(bar_min, bar_max)
SetRangeBar(b, bar_min, bar_max) ==
    LET lo == llmin2(bar_min, bar_max)
        hi == llmax2(bar_min, bar_max)
    IN  { [b EXCEPT !.mMinBar = lo, !.mMaxBar = hi, !.mTickValue = tick] :
            tick \in calc_tick_value(lo, hi) }

\* handleMouseDown, when no child handles the click
MouseDownBar(b) ==
    IF b.mDisplayBar
    THEN IF b.mDisplayHistory \/ b.mOrientation = "HORIZONTAL"
         THEN [b EXCEPT !.mDisplayBar = FALSE, !.mDisplayHistory = FALSE]
         ELSE [b EXCEPT !.mDisplayHistory = TRUE]
    ELSE [b EXCEPT !.mDisplayBar = TRUE,
                   !.mDisplayHistory = IF b.mOrientation = "HORIZONTAL" THEN TRUE ELSE @]

\* LLStatBar::LLStatBar(p): the bars the constructor can leave
mCurMinBarInit(p) == 0
NewBar(p) ==
    LET lo == llmin2(p.bar_min, p.bar_max)
        hi == llmax2(p.bar_max, p.bar_min)
        b == [kind |-> "LLStatBar",
              mMinBar |-> lo, mMaxBar |-> hi,
              mCurMaxBar |-> p.bar_max, mCurMinBar |-> mCurMinBarInit(p),
              mDecimalDigits |-> p.decimal_digits,
              mDisplayBar |-> p.show_bar, mDisplayHistory |-> p.show_history,
              mOrientation |-> p.orientation,
              mAutoScaleMax |-> ~p.bar_max_provided,
              mAutoScaleMin |-> ~p.bar_min_provided,
              mTickValue |-> p.tick_spacing,
              mLastDisplayValue |-> 0,
              timer |-> 0,
              stat |-> p.stat,
              frames |-> 0, ranges |-> 0]
    IN  IF ~p.tick_spacing_provided /\ p.bar_min_provided /\ p.bar_max_provided
        THEN { [b EXCEPT !.mTickValue = tick] : tick \in calc_tick_value(lo, hi) }
        ELSE {b}

-----------------------------------------------------------------------------
(* The widget: constructed with any parameters, then drawn, clicked and     *)
(* given new ranges in any order.                                           *)

\* the observed and the configured values are the multiples of 5.5 up to MaxObs
MaxObs == 1
\* draw() calls and setRange() calls followed
MaxFrames == 2
MaxSetRange == 1

ObsValues == { F32(11 * k) : k \in -MaxObs..MaxObs }

\* Params: a bound not provided has its default 0
ParamsOf(stats, shows) ==
    { p \in [bar_min : ObsValues, bar_min_provided : BOOLEAN,
             bar_max : ObsValues, bar_max_provided : BOOLEAN,
             tick_spacing : {0, 2 * Unit, -2 * Unit}, tick_spacing_provided : BOOLEAN,
             decimal_digits : {3},
             show_bar : shows, show_history : {FALSE},
             orientation : {"HORIZONTAL", "VERTICAL"},
             stat : stats] :
        /\ ~p.bar_min_provided => p.bar_min = 0
        /\ ~p.bar_max_provided => p.bar_max = 0
        /\ ~p.tick_spacing_provided => p.tick_spacing = 0
        /\ p.tick_spacing_provided => p.tick_spacing # 0 }

\* what the frame recording gives a frame: any observed range, its mean shown
RangeInputs ==
    { in \in [min : ObsValues, max : ObsValues,
              current : ObsValues, mean : ObsValues,
              num_rapid_changes : {0}, dt : {TimerCap}, num_periods : {2}] :
        /\ in.min <= in.max
        /\ in.current = in.max
        /\ in.mean = in.min }

InitBar ==
    /\ pc = "bar"
    /\ arg = NoCall
    /\ ret = NoCall
    /\ \E p \in ParamsOf({{}, {"count"}}, {TRUE}) : bar \in NewBar(p)
    /\ frame = NoFrame

DrawWith(inputs) ==
    /\ pc = "bar"
    /\ bar.frames < MaxFrames
    /\ \E in \in inputs :
          \E out \in DrawBar(bar, in) :
             /\ bar' = [out.bar EXCEPT !.frames = @ + 1]
             /\ frame' = out.frame
    /\ UNCHANGED <<pc, arg, ret>>

Draw == DrawWith(RangeInputs)

SetRange ==
    /\ pc = "bar"
    /\ bar.ranges < MaxSetRange
    /\ \E bar_min \in ObsValues, bar_max \in ObsValues :
          \E b \in SetRangeBar(bar, bar_min, bar_max) :
             bar' = [b EXCEPT !.ranges = @ + 1]
    /\ UNCHANGED <<pc, arg, ret, frame>>

HandleMouseDown ==
    /\ pc = "bar"
    /\ bar' = MouseDownBar(bar)
    /\ UNCHANGED <<pc, arg, ret, frame>>

Next == Draw \/ SetRange \/ HandleMouseDown

Spec == InitBar /\ [][Next]_vars

-----------------------------------------------------------------------------
(* The widget with a fixed range, drawn on any display values.              *)

ValueInputs ==
    [min : {0}, max : {F32(11)},
     current : {F32(11), NaN}, mean : {F32(-11), 0, NaN},
     num_rapid_changes : {MAX_RAPID_CHANGES_PER_SEC, MAX_RAPID_CHANGES_PER_SEC + 1},
     dt : {2, TimerCap}, num_periods : {0, 2}]

DisplayParams ==
    { p \in ParamsOf({{}, {"count"}, {"event"}, {"sample"}}, BOOLEAN) :
        /\ p.bar_min_provided /\ p.bar_min = 0
        /\ p.bar_max_provided /\ p.bar_max = F32(11)
        /\ ~p.tick_spacing_provided
        /\ p.orientation = "VERTICAL" }

InitDisplay ==
    /\ pc = "bar"
    /\ arg = NoCall
    /\ ret = NoCall
    /\ \E p \in DisplayParams : bar \in NewBar(p)
    /\ frame = NoFrame

DrawValues == DrawWith(ValueInputs)

NextDisplay == DrawValues \/ HandleMouseDown

SpecDisplay == InitDisplay /\ [][NextDisplay]_vars

-----------------------------------------------------------------------------
(* Claims about the widget *)

Drawn == pc = "bar" /\ frame.kind = "frame"

\* C6: in every state of an LLStatBar, after construction with any bar_min and
\* bar_max, provided or not, positive or negative, and after any setRange and draw
\* calls, the smoothed bounds satisfy mCurMinBar <= mCurMaxBar.
C6_CurMinLeCurMax == pc = "bar" => bar.mCurMinBar <= bar.mCurMaxBar

\* C8: no tick mark or label is drawn with a tick interval mTickValue <= 0.
C8_TicksHavePositiveStep ==
    Drawn => \A i \in 1..Len(frame.ticks) : frame.ticks[i].step > 0

\* a frame with several ticks, drawn after setRange gave the bar a new tick value
C8_Witness == Drawn /\ Len(frame.ticks) >= 2 /\ bar.ranges = 1

\* C9: a value passed to drawLabelAndValue that is not a number is rendered as
\* "n/a", and a frame whose display value is not a number draws none of the
\* min/max, history, current and mean bars.
C9_NaNNotShown ==
    Drawn =>
        /\ llisnan(frame.shown) => frame.value_str.text = "n/a"
        /\ frame.value_str.text = "number" => ~llisnan(frame.value_str.value)
        /\ llisnan(frame.display_value) => frame.bars = {}

\* a frame with the bar displayed and frames recorded, on a display value that is
\* not a number
C9_Witness ==
    /\ Drawn
    /\ llisnan(frame.display_value) /\ llisnan(frame.shown)
    /\ frame.background /\ frame.num_periods # 0
    /\ frame.value_str.text = "n/a"

-----------------------------------------------------------------------------
(* The widget drawn frame after frame: setRange comes before the first      *)
(* frame, the observed range is any in the first frame and stays at zero    *)
(* from then on, so that the targets come to rest.  draw() is called every  *)
(* frame.                                                                   *)

QuietInputs == { in \in RangeInputs : in.min = 0 /\ in.max = 0 }

SmoothParams ==
    { p \in ParamsOf({{"count"}}, {TRUE}) :
        /\ p.bar_min_provided = p.bar_max_provided
        /\ ~p.tick_spacing_provided
        /\ p.orientation = "HORIZONTAL" }

InitSmooth ==
    /\ pc = "bar"
    /\ arg = NoCall
    /\ ret = NoCall
    /\ \E p \in SmoothParams : bar \in NewBar(p)
    /\ frame = NoFrame

DrawOn ==
    /\ pc = "bar"
    /\ \E in \in (IF bar.frames = 0 THEN RangeInputs ELSE QuietInputs) :
          \E out \in DrawBar(bar, in) :
             /\ bar' = [out.bar EXCEPT !.frames = 1]
             /\ frame' = out.frame
    /\ UNCHANGED <<pc, arg, ret>>

SetRangeFirst == bar.frames = 0 /\ SetRange

NextSmooth == DrawOn \/ SetRangeFirst

SpecSmooth == InitSmooth /\ [][NextSmooth]_vars /\ WF_vars(DrawOn)

\* x lies between a and b
Between(a, x, b) == (a <= x /\ x <= b) \/ (b <= x /\ x <= a)

\* the step from cur to next is toward the target, not past it, and no more than
\* the blend fraction of the gap
SmoothMove(cur, next, target) ==
    /\ Between(cur, next, target)
    /\ llabs(next - cur) * BlendDivisor <= llabs(target - cur)

SmoothStep ==
    /\ SmoothMove(bar.mCurMaxBar, bar'.mCurMaxBar, bar.mMaxBar)
    /\ SmoothMove(bar.mCurMinBar, bar'.mCurMinBar, bar.mMinBar)

\* both smoothed bounds are within the reach of one blend step of their targets
SmoothedClose ==
    /\ llabs(bar.mMaxBar - bar.mCurMaxBar) < BlendDivisor
    /\ llabs(bar.mMinBar - bar.mCurMinBar) < BlendDivisor

-----------------------------------------------------------------------------
(* The widget drawn on display values that change from frame to frame, the   *)
(* frames coming at any of three intervals.                                  *)

RateInputs ==
    [min : {0}, max : {F32(11)},
     current : {F32(11), F32(5)}, mean : {F32(-11), 0},
     num_rapid_changes : {MAX_RAPID_CHANGES_PER_SEC, MAX_RAPID_CHANGES_PER_SEC + 1},
     dt : {2, 4, TimerCap}, num_periods : {2}]

RateParams ==
    { p \in ParamsOf({{"count"}, {"event"}, {"sample"}}, {TRUE}) :
        /\ p.bar_min_provided /\ p.bar_min = 0
        /\ p.bar_max_provided /\ p.bar_max = F32(11)
        /\ ~p.tick_spacing_provided
        /\ p.orientation = "HORIZONTAL" }

InitRate ==
    /\ pc = "bar"
    /\ arg = NoCall
    /\ ret = NoCall
    /\ \E p \in RateParams : bar \in NewBar(p)
    /\ frame = NoFrame

DrawRate == DrawWith(RateInputs)

NextRate == DrawRate \/ HandleMouseDown

SpecRate == InitRate /\ [][NextRate]_vars

\* the step is a call of draw()
DrawStep == bar'.frames = bar.frames + 1

\* the frame is one of a sample stat with at most MAX_RAPID_CHANGES_PER_SEC rapid
\* changes in the one second window
SampleShownDirectly(b, f) ==
    /\ "sample" \in b.stat /\ "count" \notin b.stat /\ "event" \notin b.stat
    /\ f.num_rapid_changes <= MAX_RAPID_CHANGES_PER_SEC

\* C11: in every draw() the value shown is the newly computed display value, and the
\* timer is reset, exactly when more than MEAN_VALUE_UPDATE_TIME has passed since
\* the last update; in every other frame the value shown is the one the previous
\* frame showed.  The exception: a sample stat with at most
\* MAX_RAPID_CHANGES_PER_SEC rapid changes shows its current value in every frame,
\* and with more its display value is the mean.
RateLimitedStep ==
    DrawStep =>
        /\ frame'.updated <=> frame'.elapsed > MEAN_VALUE_UPDATE_TIME
        /\ frame'.updated => frame'.shown = frame'.display_value /\ bar'.timer = 0
        /\ ~frame'.updated => bar'.timer = frame'.elapsed
        /\ SampleShownDirectly(bar, frame') => frame'.shown = frame'.current
        /\ ~SampleShownDirectly(bar, frame') => frame'.display_value = frame'.mean
        /\ (Drawn /\ ~frame'.updated /\ ~SampleShownDirectly(bar, frame'))
              => frame'.shown = frame.shown
C11_RateLimited == [][RateLimitedStep]_vars

\* a frame that came too early after an update: the display value has changed and
\* the value of the frame before is still shown
C11_Witness ==
    /\ Drawn /\ bar.frames = 2 /\ ~frame.updated
    /\ bar.timer = 2
    /\ frame.shown # frame.display_value /\ frame.shown # 0
    /\ frame.shown = bar.mLastDisplayValue

-----------------------------------------------------------------------------
(* The tick loop of drawTicks, one iteration a step, on whole-number F32     *)
(* values of any magnitude: an F32 has 24 significant bits, and the sum      *)
(* tick_value += mTickValue is rounded to the nearest F32, to the even one   *)
(* of two equally near.                                                      *)

\* the spacing of the F32 values at magnitude a >= 0 (a whole number)
RECURSIVE F32Ulp(_)
F32Ulp(a) == IF a < 2^24 THEN 1 ELSE 2 * F32Ulp(a \div 2)

\* the F32 nearest to the whole number x
F32Round(x) ==
    LET a == llabs(x)
        u == F32Ulp(a)
        lo == (a \div u) * u
        up == lo + u
        nearest == IF 2 * (a - lo) < u THEN lo
                   ELSE IF 2 * (a - lo) > u THEN up
                   ELSE IF (lo \div u) % 2 = 0 THEN lo ELSE up
    IN  IF x < 0 THEN -nearest ELSE nearest

\* tick_value += mTickValue
F32Add(x, y) == F32Round(x + y)

\* mCurMinBar, and how far above it mCurMaxBar is
TickMinBars == {-(2^24 + 4), -(2^24 + 2), -3, 0, 7}
TickRanges == {10, 20, 40}

\* the members drawTicks reads when it enters the loop
TickBars ==
    { b \in [mCurMinBar : TickMinBars,
              mCurMaxBar : { F32Round(lo + r) : lo \in TickMinBars, r \in TickRanges },
              mTickValue : {1, 2, 4},
              mOrientation : {"HORIZONTAL", "VERTICAL"}] :
        /\ b.mCurMaxBar - b.mCurMinBar \in TickRanges
        /\ TicksGuard(b, value_scale_of(b)) }

\* F32 start = mCurMinBar < 0.f ? llceil(-mCurMinBar / mTickValue) * -mTickValue : 0.f
TickStart(b) ==
    IF b.mCurMinBar < 0
    THEN F32Round(CeilDiv(-b.mCurMinBar, b.mTickValue) * (-b.mTickValue))
    ELSE 0

\* const S32 begin = llfloor((tick_value - mCurMinBar)*value_scale)
TickBegin(b, tick_value) ==
    ScaledFloor(F32Round(tick_value - b.mCurMinBar), value_scale_of(b))

InitTicks ==
    /\ pc = "ticks"
    /\ arg \in TickBars
    /\ ret = [tick_value |-> TickStart(arg), last_tick |-> 0, last_label |-> 0,
              drawn |-> <<>>]
    /\ bar = NoBar
    /\ frame = NoFrame

\* if (begin - last_tick < MIN_TICK_SPACING) continue;
TickSkip ==
    /\ pc = "ticks"
    /\ TickBegin(arg, ret.tick_value) - ret.last_tick < MIN_TICK_SPACING(arg.mOrientation)
    /\ ret' = [ret EXCEPT !.tick_value = F32Add(@, arg.mTickValue)]
    /\ UNCHANGED <<pc, arg, bar, frame>>

\* the locals after a tick is drawn at tick_value
TickDrawnAt(b, s) ==
    LET begin == TickBegin(b, s.tick_value)
    IN  [s EXCEPT !.last_tick = begin,
                  !.last_label = IF begin - @ > MIN_LABEL_SPACING(b.mOrientation)
                                 THEN begin ELSE @,
                  !.drawn = Append(@, s.tick_value)]

\* a tick not past mCurMaxBar is drawn and the loop goes on
TickDraw ==
    /\ pc = "ticks"
    /\ ~(TickBegin(arg, ret.tick_value) - ret.last_tick < MIN_TICK_SPACING(arg.mOrientation))
    /\ ~(ret.tick_value > arg.mCurMaxBar)
    /\ ret' = [TickDrawnAt(arg, ret) EXCEPT !.tick_value = F32Add(@, arg.mTickValue)]
    /\ UNCHANGED <<pc, arg, bar, frame>>

\* a tick past mCurMaxBar is drawn: if (tick_value > mCurMaxBar) break;
TickDrawLast ==
    /\ pc = "ticks"
    /\ ~(TickBegin(arg, ret.tick_value) - ret.last_tick < MIN_TICK_SPACING(arg.mOrientation))
    /\ ret.tick_value > arg.mCurMaxBar
    /\ ret' = TickDrawnAt(arg, ret)
    /\ pc' = "ticks_done"
    /\ UNCHANGED <<arg, bar, frame>>

NextTicks == TickSkip \/ TickDraw \/ TickDrawLast

SpecTicks == InitTicks /\ [][NextTicks]_vars /\ WF_vars(NextTicks)

TickLoopExited == pc = "ticks_done"

\* the ticks drawn past the end of the bar
TicksPastEnd == { i \in 1..Len(ret.drawn) : ret.drawn[i] > arg.mCurMaxBar }

\* C12: the tick loop, entered with mTickValue > 0 and value_scale > 0, exits after
\* finitely many increments of tick_value, whatever mCurMinBar, mCurMaxBar and the
\* orientation are; no drawn tick but the last is past mCurMaxBar, and the loop
\* exits only with that one drawn.
C12_TickLoopTerminates ==
    /\ <>TickLoopExited
    /\ [](pc \in {"ticks", "ticks_done"} =>
            /\ TicksPastEnd \subseteq {Len(ret.drawn)}
            /\ TickLoopExited <=> TicksPastEnd # {})

-----------------------------------------------------------------------------
(* Auto-scaling, in the widget drawn, clicked and given new ranges.          *)

\* C13: no draw() increases mMinBar or decreases mMaxBar, and after it
\* mMinBar <= mMaxBar; a bound that does not scale automatically (its parameter was
\* provided) is left as it is by draw(), and when neither does, so is mTickValue.
AutoScaleStep ==
    DrawStep =>
        /\ bar'.mMinBar <= bar.mMinBar
        /\ bar'.mMaxBar >= bar.mMaxBar
        /\ bar'.mMinBar <= bar'.mMaxBar
        /\ bar'.mAutoScaleMin = bar.mAutoScaleMin /\ bar'.mAutoScaleMax = bar.mAutoScaleMax
        /\ ~bar.mAutoScaleMin => bar'.mMinBar = bar.mMinBar
        /\ ~bar.mAutoScaleMax => bar'.mMaxBar = bar.mMaxBar
        /\ (~bar.mAutoScaleMin /\ ~bar.mAutoScaleMax) => bar'.mTickValue = bar.mTickValue
C13_AutoScaleOnlyWidens == [][AutoScaleStep]_vars

\* a frame that widened the side that scales automatically and left the provided
\* side alone (no setRange has come since)
C13_Witness ==
    /\ Drawn /\ bar.ranges = 0 /\ bar.frames = 2
    /\ bar.mAutoScaleMax /\ ~bar.mAutoScaleMin
    /\ bar.mMaxBar > frame.from.mMaxBar
    /\ bar.mMinBar = frame.from.mMinBar /\ bar.mMinBar < 0

====
